---- MODULE Spec2Model ----
(***************************************************************************)
(* Model of mnist_fid.py (MisGAN, FID scoring on MNIST):                   *)
(*   get_activations / calculate_activation_statistics   (SpecCollector)   *)
(*   calculate_frechet_distance                           (SpecFrechet)     *)
(*   MNISTModel.__init__, data_generator_fid, imputer_fid (SpecScoring)     *)
(*   main                                                 (SpecMain)        *)
(* Each component keeps its state in one record variable whose fields are   *)
(* the locals / fields of the code it models.                               *)
(***************************************************************************)
EXTENDS Integers, Sequences, FiniteSets, TLC

VARIABLES ga, fd, sc, mn

vars == <<ga, fd, sc, mn>>

(***************************************************************************)
(* Bounds of the model.                                                     *)
(***************************************************************************)
MaxBatch == 2        \* largest batch produced by a batch source
MaxBatches == 3      \* longest batch sequence handed to get_activations
MaxImages == 4       \* largest declared row count `images`

(***************************************************************************)
(* Generic helpers.                                                         *)
(***************************************************************************)
Min(a, b) == IF a < b THEN a ELSE b

Max(a, b) == IF a < b THEN b ELSE a

RECURSIVE SumSeq(_)
SumSeq(s) == IF s = <<>> THEN 0 ELSE Head(s) + SumSeq(Tail(s))

RECURSIVE Flatten(_)
Flatten(ss) == IF ss = <<>> THEN <<>> ELSE Head(ss) \o Flatten(Tail(ss))

SeqsUpTo(S, n) == UNION {[1..k -> S] : k \in 0..n}

NonEmptySeqsUpTo(S, n) == UNION {[1..k -> S] : k \in 1..n}

(***************************************************************************)
(* get_activations                                                          *)
(***************************************************************************)
SampleVals == {1, 2}

\* model(batch); model.feature[feature_layer] for one sample: the frozen
\* extractor is an external function of the sample alone.
Feature(sample) == 2 * sample + 1

\* np.empty leaves the buffer uninitialised: any value may be in a row.
Garbage == {0, 3}

\* pred.cpu().numpy().reshape(batch_size, -1): one feature row per sample.
BatchFeature(batch) == [j \in 1..Len(batch) |-> Feature(batch[j])]

\* numpy basic-slice assignment  arr[start:end] = value  on the row axis:
\* the slice is clipped to the array, and value must have as many rows as
\* the clipped slice or exactly one row (broadcast); otherwise ValueError.
SliceLo(n, start) == Min(start, n)

SliceHi(n, start, end) == Max(SliceLo(n, start), Min(end, n))

\* Variant of SliceFits: an assignment that never checks the row counts.
SliceFitsAlways(n, start, end, value) == TRUE

SliceFits(n, start, end, value) ==
    \/ Len(value) = SliceHi(n, start, end) - SliceLo(n, start)
    \/ Len(value) = 1

SliceAssign(rows, start, end, value) ==
    [k \in 1..Len(rows) |->
        IF SliceLo(Len(rows), start) < k /\ k <= SliceHi(Len(rows), start, end)
        THEN IF Len(value) = 1 THEN value[1] ELSE value[k - start]
        ELSE rows[k]]

SliceCount(writes, start, end) ==
    [k \in 1..Len(writes) |->
        IF SliceLo(Len(writes), start) < k /\ k <= SliceHi(Len(writes), start, end)
        THEN writes[k] + 1
        ELSE writes[k]]

\* State of one get_activations call before the loop (lines 41-42).
GAStart(image_generator, images) ==
    [pc |-> "loop", image_generator |-> image_generator, images |-> images,
     isNone |-> TRUE, pred_arr |-> <<>>, writes |-> <<>>,
     end |-> 0, i |-> 0, consumed |-> <<>>]

\* The buffer after `if pred_arr is None: pred_arr = np.empty(...)`.
GAAlloc(st, empty) == IF st.isNone THEN empty ELSE st.pred_arr

GAWrites(st) == IF st.isNone THEN [k \in 1..st.images |-> 0] ELSE st.writes

\* Variant of GAStep: every batch is written from row 0 (start is not
\* carried over from the previous batch).
GAStepNoAdvance(st, empty) ==
    LET batch == Head(st.image_generator)
        batch_size == Len(batch)
        batch_feature == BatchFeature(batch)
        arr == GAAlloc(st, empty)
        fits == SliceFits(st.images, 0, batch_size, batch_feature)
    IN [st EXCEPT
          !.image_generator = Tail(st.image_generator),
          !.i = st.i + 1,
          !.consumed = Append(st.consumed, batch),
          !.end = batch_size,
          !.isNone = FALSE,
          !.pred_arr = IF fits THEN SliceAssign(arr, 0, batch_size, batch_feature)
                       ELSE arr,
          !.writes = IF fits THEN SliceCount(GAWrites(st), 0, batch_size)
                     ELSE GAWrites(st),
          !.pc = IF fits THEN "loop" ELSE "raised"]

\* One iteration of the for loop (lines 43-57) on the next batch; `empty`
\* is what np.empty would hand out if the buffer is allocated now.
GAStep(st, empty) ==
    LET batch == Head(st.image_generator)
        start == st.end
        batch_size == Len(batch)
        end == start + batch_size
        batch_feature == BatchFeature(batch)
        arr == GAAlloc(st, empty)
        fits == SliceFits(st.images, start, end, batch_feature)
    IN [st EXCEPT
          !.image_generator = Tail(st.image_generator),
          !.i = st.i + 1,
          !.consumed = Append(st.consumed, batch),
          !.end = end,
          !.isNone = FALSE,
          !.pred_arr = IF fits THEN SliceAssign(arr, start, end, batch_feature)
                       ELSE arr,
          !.writes = IF fits THEN SliceCount(GAWrites(st), start, end)
                     ELSE GAWrites(st),
          !.pc = IF fits THEN "loop" ELSE "raised"]

\* `return pred_arr` once the generator is exhausted (line 62).
GAReturn(st) == [st EXCEPT !.pc = "returned"]

\* The whole call, as calculate_activation_statistics makes it.
RECURSIVE GetActivations(_, _)
GetActivations(st, empty) ==
    IF st.pc # "loop" THEN st
    ELSE IF st.image_generator = <<>> THEN GAReturn(st)
    ELSE GetActivations(GAStep(st, empty), empty)

(***************************************************************************)
(* calculate_activation_statistics (weight=None)                            *)
(***************************************************************************)
\* np.mean(act, axis=0) as the fraction sum/n (n = 0 gives nan).
Mean(act) == [num |-> SumSeq(act), den |-> Len(act)]

\* np.cov(act, rowvar=False), ddof = 1, as a fraction:
\* (n*sum(x^2) - sum(x)^2) / (n*(n-1))   (n <= 1 gives nan).
Cov(act) ==
    [num |-> Len(act) * SumSeq([k \in 1..Len(act) |-> act[k] * act[k]])
             - SumSeq(act) * SumSeq(act),
     den |-> Len(act) * (Len(act) - 1)]

NoStats == [num |-> 0, den |-> 0]

\* Lines 139-146 applied to the outcome of get_activations: an exception of
\* the collector propagates, np.mean(None, axis=0) raises, and otherwise
\* the statistics are taken over every row of the buffer.
CalcActivationStatistics(act) ==
    IF act.pc = "raised" THEN [pc |-> "raised", mu |-> NoStats, sigma |-> NoStats]
    ELSE IF act.isNone THEN [pc |-> "raised", mu |-> NoStats, sigma |-> NoStats]
    ELSE [pc |-> "returned", mu |-> Mean(act.pred_arr), sigma |-> Cov(act.pred_arr)]

(***************************************************************************)
(* calculate_frechet_distance                                               *)
(*                                                                          *)
(* An array is [ndim, data]: data is always kept as a list of rows, ndim    *)
(* says how many axes numpy sees (0: scalar, 1: vector = the single row,    *)
(* 2: matrix).  Imaginary parts and the tolerance are in units of 1e-4.     *)
(***************************************************************************)
Shape(a) ==
    IF a.ndim = 0 THEN <<>>
    ELSE IF a.ndim = 1 THEN <<Len(a.data[1])>>
    ELSE <<Len(a.data), Len(a.data[1])>>

\* np.atleast_1d: a scalar becomes a vector of length 1.
AtLeast1d(a) == IF a.ndim = 0 THEN [a EXCEPT !.ndim = 1] ELSE a

\* np.atleast_2d: a scalar becomes 1x1, a vector of length n becomes 1xn.
AtLeast2d(a) == IF a.ndim < 2 THEN [a EXCEPT !.ndim = 2] ELSE a

Rows(m) == Len(m)

Cols(m) == Len(m[1])

\* a.dot(b) for 2-d arrays (defined when Cols(a) = Rows(b)).
MatMul(a, b) ==
    [i \in 1..Rows(a) |-> [j \in 1..Cols(b) |->
        SumSeq([k \in 1..Cols(a) |-> a[i][k] * b[k][j]])]]

MatAdd(a, b) ==
    [i \in 1..Rows(a) |-> [j \in 1..Cols(a) |-> a[i][j] + b[i][j]]]

\* np.eye(n)
Eye(n) == [i \in 1..n |-> [j \in 1..n |-> IF i = j THEN 1 ELSE 0]]

ZeroMat(n) == [i \in 1..n |-> [j \in 1..n |-> 0]]

\* np.trace of an integer matrix
Trace(m) == SumSeq([i \in 1..Min(Rows(m), Cols(m)) |-> m[i][i]])

\* v.dot(v) for a vector
Dot(u, v) == SumSeq([k \in 1..Len(u) |-> u[k] * v[k]])

\* The argument of linalg.sqrtm as a polynomial in eps,
\* c0 + eps*c1 + eps^2*c2: sigma1.dot(sigma2) on line 101 and
\* (sigma1 + offset).dot(sigma2 + offset), offset = eye*eps, on line 107.
Product(sigma1, sigma2) ==
    [c0 |-> MatMul(sigma1, sigma2),
     c1 |-> ZeroMat(Rows(sigma1)),
     c2 |-> ZeroMat(Rows(sigma1))]

RegularizedProduct(sigma1, sigma2) ==
    [c0 |-> MatMul(sigma1, sigma2),
     c1 |-> MatAdd(sigma1, sigma2),
     c2 |-> Eye(Rows(sigma1))]

IsSquareNumber(x) == x >= 0 /\ \E r \in 0..x : r * r = x

ISqrt(x) == CHOOSE r \in 0..x : r * r = x

\* A diagonal integer matrix whose entries are squares: its principal square
\* root is the diagonal matrix of the roots, and sqrtm returns it exactly.
ExactRoot(arg) ==
    /\ arg.c1 = ZeroMat(Rows(arg.c0))
    /\ arg.c2 = ZeroMat(Rows(arg.c0))
    /\ \A i, j \in 1..Rows(arg.c0) :
          IF i = j THEN IsSquareNumber(arg.c0[i][j]) ELSE arg.c0[i][j] = 0

\* One entry of a sqrtm result: real part, |imaginary part| (1e-4 units),
\* and whether each part is finite.
Entry(re, im, reFinite, imFinite) ==
    [re |-> re, im |-> im, reFinite |-> reFinite, imFinite |-> imFinite]

Real(re) == Entry(re, 0, TRUE, TRUE)

\* A result with e1 at [1][1], e2 on the rest of the diagonal and off
\* everywhere else.
Result(n, complex, e1, e2, off) ==
    [complex |-> complex,
     m |-> [i \in 1..n |-> [j \in 1..n |->
              IF i # j THEN off ELSE IF i = 1 THEN e1 ELSE e2]]]

\* What sqrtm can hand back for a matrix it cannot take the root of
\* exactly: a real or complex array, finite or not, with any imaginary
\* residue on and off the diagonal.
InexactResults(n) ==
    { Result(n, FALSE, Real(2), Real(2), Real(1)),
      Result(n, FALSE, Entry(0, 0, FALSE, TRUE), Real(2), Real(1)),
      Result(n, TRUE, Entry(2, 5, TRUE, TRUE), Entry(2, 0, TRUE, TRUE),
             Entry(1, 500, TRUE, TRUE)),
      Result(n, TRUE, Entry(2, 10, TRUE, TRUE), Entry(2, 10, TRUE, TRUE),
             Entry(1, 0, TRUE, TRUE)),
      Result(n, TRUE, Entry(2, 11, TRUE, TRUE), Entry(2, 0, TRUE, TRUE),
             Entry(1, 500, TRUE, TRUE)),
      Result(n, TRUE, Entry(2, 0, TRUE, TRUE), Entry(2, 11, TRUE, TRUE),
             Entry(1, 0, TRUE, TRUE)),
      Result(n, TRUE, Entry(0, 0, FALSE, TRUE), Entry(2, 0, TRUE, TRUE),
             Entry(1, 20, TRUE, TRUE)),
      Result(n, TRUE, Entry(2, 0, TRUE, FALSE), Entry(2, 0, TRUE, TRUE),
             Entry(1, 0, TRUE, TRUE)) }

\* linalg.sqrtm
Sqrtm(arg) ==
    IF ExactRoot(arg)
    THEN {[complex |-> FALSE,
           m |-> [i \in 1..Rows(arg.c0) |-> [j \in 1..Rows(arg.c0) |->
                    Real(IF i = j THEN ISqrt(arg.c0[i][j]) ELSE 0)]]]}
    ELSE InexactResults(Rows(arg.c0))

\* np.isfinite(covmean).all()
AllFinite(covmean) ==
    \A i, j \in 1..Rows(covmean.m) :
        covmean.m[i][j].reFinite /\ covmean.m[i][j].imFinite

\* atol of np.allclose on line 111: 1e-3
Atol == 10

\* Variant of DiagImagClose: the tolerance applied to every entry.
AllImagClose(covmean) ==
    \A i, j \in 1..Rows(covmean.m) :
        covmean.m[i][j].imFinite /\ covmean.m[i][j].im <= Atol

\* np.allclose(np.diagonal(covmean).imag, 0, atol=1e-3)
DiagImagClose(covmean) ==
    \A i \in 1..Rows(covmean.m) :
        covmean.m[i][i].imFinite /\ covmean.m[i][i].im <= Atol

\* np.max(np.abs(covmean.imag)): over every entry; nan if any is nan.
MaxAbsImag(covmean) ==
    LET n == Rows(covmean.m)
        all == {covmean.m[i][j] : i \in 1..n, j \in 1..n}
    IN [finite |-> \A e \in all : e.imFinite,
        val |-> CHOOSE v \in {e.im : e \in all} : \A e \in all : e.im <= v]

\* covmean.real
RealPart(covmean) ==
    [complex |-> FALSE,
     m |-> [i \in 1..Rows(covmean.m) |-> [j \in 1..Rows(covmean.m) |->
              Entry(covmean.m[i][j].re, 0, covmean.m[i][j].reFinite, TRUE)]]]

\* np.trace(covmean) of a real result: nan if a diagonal entry is.
TraceOf(covmean) ==
    [finite |-> \A i \in 1..Rows(covmean.m) : covmean.m[i][i].reFinite,
     val |-> SumSeq([i \in 1..Rows(covmean.m) |-> covmean.m[i][i].re])]

\* Variant of Distance: the square-root trace subtracted once.
DistanceSingleTrace(diff, sigma1, sigma2, tr_covmean) ==
    [finite |-> tr_covmean.finite,
     val |-> Dot(diff, diff) + Trace(sigma1) + Trace(sigma2) - tr_covmean.val]

\* Lines 118-119.
Distance(diff, sigma1, sigma2, tr_covmean) ==
    [finite |-> tr_covmean.finite,
     val |-> Dot(diff, diff) + Trace(sigma1) + Trace(sigma2)
             - 2 * tr_covmean.val]

NoResult == [finite |-> TRUE, val |-> 0]

NoCovmean == [complex |-> FALSE, m |-> <<>>]

\* State of a call on entry.
FDStart(mu1, sigma1, mu2, sigma2) ==
    [pc |-> "assert", mu1 |-> mu1, sigma1 |-> sigma1, mu2 |-> mu2,
     sigma2 |-> sigma2, covmean |-> NoCovmean, sqrtm_calls |-> 0,
     sqrtm_args |-> <<>>, retried |-> FALSE, roots |-> <<>>,
     error |-> "none", m |-> NoResult, result |-> NoResult]

\* Variant of FDAssert: only the means are compared.
FDAssertMeansOnly(st) ==
    LET mu1 == AtLeast1d(st.mu1)
        mu2 == AtLeast1d(st.mu2)
        ok == Shape(mu1) = Shape(mu2)
    IN [st EXCEPT !.mu1 = mu1, !.mu2 = mu2,
                  !.sigma1 = AtLeast2d(st.sigma1),
                  !.sigma2 = AtLeast2d(st.sigma2),
                  !.pc = IF ok THEN "sqrtm" ELSE "raised",
                  !.error = IF ok THEN "none" ELSE "AssertionError"]

\* Lines 87-96: normalise the four arrays, then the two assertions.
FDAssert(st) ==
    LET mu1 == AtLeast1d(st.mu1)
        mu2 == AtLeast1d(st.mu2)
        sigma1 == AtLeast2d(st.sigma1)
        sigma2 == AtLeast2d(st.sigma2)
        ok == Shape(mu1) = Shape(mu2) /\ Shape(sigma1) = Shape(sigma2)
    IN [st EXCEPT !.mu1 = mu1, !.mu2 = mu2, !.sigma1 = sigma1,
                  !.sigma2 = sigma2,
                  !.pc = IF ok THEN "sqrtm" ELSE "raised",
                  !.error = IF ok THEN "none" ELSE "AssertionError"]

\* sigma1.dot(sigma2) needs Cols(sigma1) = Rows(sigma2): with equal shapes,
\* square matrices; numpy raises ValueError otherwise.
DotDefined(st) == Cols(st.sigma1.data) = Rows(st.sigma2.data)

\* Line 101 when the product cannot be formed.
FDDotFails(st) == [st EXCEPT !.pc = "raised", !.error = "ValueError(dot)"]

\* Line 101 with the result r of the first sqrtm call.
FDSqrtm(st, r) ==
    [st EXCEPT !.covmean = r,
               !.roots = Append(st.roots, r),
               !.sqrtm_calls = st.sqrtm_calls + 1,
               !.sqrtm_args = Append(st.sqrtm_args,
                                     Product(st.sigma1.data, st.sigma2.data)),
               !.pc = "isfinite"]

\* Variant of NeedsRetry: np.isfinite applied to the real parts only.
NeedsRetryRealOnly(st) ==
    \E i, j \in 1..Rows(st.covmean.m) : ~st.covmean.m[i][j].reFinite

\* Line 102: is the fallback needed?
NeedsRetry(st) == ~AllFinite(st.covmean)

\* Line 102 false: straight to the complex check.
FDSkipRetry(st) == [st EXCEPT !.pc = "iscomplex"]

\* Lines 103-107 with the result r of the second sqrtm call.
FDRetry(st, r) ==
    [st EXCEPT !.covmean = r,
               !.roots = Append(st.roots, r),
               !.sqrtm_calls = st.sqrtm_calls + 1,
               !.sqrtm_args = Append(st.sqrtm_args,
                                     RegularizedProduct(st.sigma1.data,
                                                        st.sigma2.data)),
               !.retried = TRUE,
               !.pc = "iscomplex"]

\* Variant of FDComplex: the residue is only examined after a retry.
FDComplexAfterRetryOnly(st) ==
    IF st.covmean.complex
    THEN IF st.retried /\ ~DiagImagClose(st.covmean)
         THEN [st EXCEPT !.pc = "raised", !.error = "ValueError",
                         !.m = MaxAbsImag(st.covmean)]
         ELSE [st EXCEPT !.covmean = RealPart(st.covmean), !.pc = "trace"]
    ELSE [st EXCEPT !.pc = "trace"]

\* Lines 110-114.
FDComplex(st) ==
    IF st.covmean.complex
    THEN IF ~DiagImagClose(st.covmean)
         THEN [st EXCEPT !.pc = "raised", !.error = "ValueError",
                         !.m = MaxAbsImag(st.covmean)]
         ELSE [st EXCEPT !.covmean = RealPart(st.covmean), !.pc = "trace"]
    ELSE [st EXCEPT !.pc = "trace"]

\* Lines 98, 116-119.
FDReturn(st) ==
    LET diff == [k \in 1..Len(st.mu1.data[1]) |->
                    st.mu1.data[1][k] - st.mu2.data[1][k]]
        tr_covmean == TraceOf(st.covmean)
    IN [st EXCEPT !.pc = "returned",
                  !.result = Distance(diff, st.sigma1.data, st.sigma2.data,
                                      tr_covmean)]

(***************************************************************************)
(* Idle values of the components a specification does not exercise.         *)
(***************************************************************************)
NoCall == [pc |-> "idle"]

(***************************************************************************)
(* SpecCollector: one calculate_activation_statistics call, batch by batch. *)
(***************************************************************************)
Batches == NonEmptySeqsUpTo(SampleVals, MaxBatch)

BatchSources == SeqsUpTo(Batches, MaxBatches)

InitCollector ==
    /\ \E src \in BatchSources, images \in 0..MaxImages :
          ga = [batch_source |-> src,
                act |-> GAStart(src, images),
                stats |-> [pc |-> "pending", mu |-> NoStats, sigma |-> NoStats]]
    /\ fd = NoCall
    /\ sc = NoCall
    /\ mn = NoCall

\* What np.empty((images, D)) may hand out; it is only called while
\* pred_arr is None.
EmptyBuffers(st) ==
    IF st.isNone THEN [1..st.images -> Garbage] ELSE {st.pred_arr}

\* for i, batch in enumerate(image_generator): ... (one iteration)
GA_Batch ==
    /\ ga.act.pc = "loop"
    /\ ga.act.image_generator # <<>>
    /\ \E empty \in EmptyBuffers(ga.act) :
          ga' = [ga EXCEPT !.act = GAStep(ga.act, empty)]
    /\ UNCHANGED <<fd, sc, mn>>

\* the generator is exhausted: return pred_arr
GA_Return ==
    /\ ga.act.pc = "loop"
    /\ ga.act.image_generator = <<>>
    /\ ga' = [ga EXCEPT !.act = GAReturn(ga.act)]
    /\ UNCHANGED <<fd, sc, mn>>

\* mu, sigma computed from what get_activations handed back
CAS_Stats ==
    /\ ga.act.pc \in {"returned", "raised"}
    /\ ga.stats.pc = "pending"
    /\ ga' = [ga EXCEPT !.stats = CalcActivationStatistics(ga.act)]
    /\ UNCHANGED <<fd, sc, mn>>

NextCollector == GA_Batch \/ GA_Return \/ CAS_Stats

SpecCollector == InitCollector /\ [][NextCollector]_vars

(***************************************************************************)
(* SpecFrechet: one calculate_frechet_distance call, statement by statement.*)
(***************************************************************************)
MuVals == {0, 3, 4}

SigmaVals == {0, 1, 4}

Dims == {1, 2}

Scalar(x) == [ndim |-> 0, data |-> <<<<x>>>>]

Vector(v) == [ndim |-> 1, data |-> <<v>>]

Matrix(rows) == [ndim |-> 2, data |-> rows]

Diag(v) == [i \in 1..Len(v) |-> [j \in 1..Len(v) |-> IF i = j THEN v[i] ELSE 0]]

Means ==
    {Scalar(3)} \cup {Vector(v) : v \in UNION {[1..d -> MuVals] : d \in Dims}}

Covs ==
    {Scalar(4), Vector(<<4>>), Vector(<<1, 4>>),
     Matrix(<<<<2, 1>>, <<1, 2>>>>), Matrix(<<<<1, 2>>, <<2, 1>>>>)}
    \cup {Matrix(Diag(v)) : v \in UNION {[1..d -> SigmaVals] : d \in Dims}}

InitFrechet ==
    /\ \E mu1 \in Means, mu2 \in Means, sigma1 \in Covs, sigma2 \in Covs :
          fd = FDStart(mu1, sigma1, mu2, sigma2)
    /\ ga = NoCall
    /\ sc = NoCall
    /\ mn = NoCall

FD_Assert ==
    /\ fd.pc = "assert"
    /\ fd' = FDAssert(fd)
    /\ UNCHANGED <<ga, sc, mn>>

FD_DotFails ==
    /\ fd.pc = "sqrtm"
    /\ ~DotDefined(fd)
    /\ fd' = FDDotFails(fd)
    /\ UNCHANGED <<ga, sc, mn>>

FD_Sqrtm ==
    /\ fd.pc = "sqrtm"
    /\ DotDefined(fd)
    /\ \E r \in Sqrtm(Product(fd.sigma1.data, fd.sigma2.data)) :
          fd' = FDSqrtm(fd, r)
    /\ UNCHANGED <<ga, sc, mn>>

FD_Retry ==
    /\ fd.pc = "isfinite"
    /\ NeedsRetry(fd)
    /\ \E r \in Sqrtm(RegularizedProduct(fd.sigma1.data, fd.sigma2.data)) :
          fd' = FDRetry(fd, r)
    /\ UNCHANGED <<ga, sc, mn>>

FD_SkipRetry ==
    /\ fd.pc = "isfinite"
    /\ ~NeedsRetry(fd)
    /\ fd' = FDSkipRetry(fd)
    /\ UNCHANGED <<ga, sc, mn>>

FD_Complex ==
    /\ fd.pc = "iscomplex"
    /\ fd' = FDComplex(fd)
    /\ UNCHANGED <<ga, sc, mn>>

FD_Return ==
    /\ fd.pc = "trace"
    /\ fd' = FDReturn(fd)
    /\ UNCHANGED <<ga, sc, mn>>

NextFrechet ==
    \/ FD_Assert \/ FD_DotFails \/ FD_Sqrtm \/ FD_Retry \/ FD_SkipRetry
    \/ FD_Complex \/ FD_Return

SpecFrechet == InitFrechet /\ [][NextFrechet]_vars

(***************************************************************************)
(* MNISTModel, data_generator_fid, imputer_fid                              *)
(***************************************************************************)
RefImages == 3       \* len(data) of the reference corpus
MaxCalls == 3        \* scoring calls made in one run
MaxSamples == 4      \* largest n_samples / population handed to a call
MaxBatchSize == 3    \* largest batch_size handed to a call

\* batch_size of the reference pass (line 166)
RefBatchSize == 64

\* datasets.MNIST('data', train=True, ...): the images of the corpus.
MNISTData == [k \in 1..RefImages |-> 1 + (k % 2)]

\* The batches a torch DataLoader yields over a sequence: consecutive
\* chunks of batch_size items, the last one possibly shorter.
RECURSIVE Chunks(_, _)
Chunks(data, batch_size) ==
    IF data = <<>> THEN <<>>
    ELSE IF Len(data) <= batch_size THEN <<data>>
    ELSE <<SubSeq(data, 1, batch_size)>>
         \o Chunks(SubSeq(data, batch_size + 1, Len(data)), batch_size)

\* DataLoader(data, batch_size=..., drop_last=...)
DataLoader(data, batch_size, drop_last) ==
    LET c == Chunks(data, batch_size)
    IN IF drop_last /\ c # <<>> /\ Len(c[Len(c)]) < batch_size
       THEN SubSeq(c, 1, Len(c) - 1)
       ELSE c

\* Lines 163-170: the statistics of the reference corpus, through
\* calculate_activation_statistics.
ReferencePass(empty) ==
    CalcActivationStatistics(
        GetActivations(GAStart(DataLoader(MNISTData, RefBatchSize, FALSE),
                               Len(MNISTData)),
                       empty))

NoFile == [exists |-> FALSE, mu |-> NoStats, sigma |-> NoStats]

\* np.savez(stats_file, mu=m_mnist, sigma=s_mnist)
Savez(mu, sigma) == [exists |-> TRUE, mu |-> mu, sigma |-> sigma]

\* Variant of MNISTModelInit: the computed statistics are not saved.
MNISTModelInitNoSave(file, empty) ==
    IF file.exists
    THEN [file |-> file, computed |-> FALSE,
          mnist_stats |-> [mu |-> file.mu, sigma |-> file.sigma]]
    ELSE LET st == ReferencePass(empty)
         IN [file |-> file, computed |-> TRUE,
             mnist_stats |-> [mu |-> st.mu, sigma |-> st.sigma]]

\* MNISTModel.__init__ (lines 150-174) on the file system `file`: np.load
\* the statistics, or on FileNotFoundError compute and save them.
\* computed tells whether the reference pass ran.
MNISTModelInit(file, empty) ==
    IF file.exists
    THEN [file |-> file, computed |-> FALSE,
          mnist_stats |-> [mu |-> file.mu, sigma |-> file.sigma]]
    ELSE LET st == ReferencePass(empty)
         IN [file |-> Savez(st.mu, st.sigma), computed |-> TRUE,
             mnist_stats |-> [mu |-> st.mu, sigma |-> st.sigma]]

\* features buffer of a scoring call: None until the first batch.
NoFeatures == [isNone |-> TRUE, rows |-> <<>>, writes |-> <<>>]

\* np.empty((n_samples, D)) on first use.
Allocate(features, empty) ==
    IF features.isNone
    THEN [isNone |-> FALSE, rows |-> empty, writes |-> [k \in 1..Len(empty) |-> 0]]
    ELSE features

\* features[start:end] = value
Store(features, start, end, value) ==
    [features EXCEPT !.rows = SliceAssign(features.rows, start, end, value),
                     !.writes = SliceCount(features.writes, start, end)]

NoScore == [mu |-> NoStats, sigma |-> NoStats, ref |-> [mu |-> NoStats, sigma |-> NoStats]]

\* MNISTModel.fid (lines 181-184): the moments of the features and the call
\* of calculate_frechet_distance on them and the reference statistics;
\* np.mean(None, axis=0) raises before that call.
Fid(call) ==
    IF call.features.isNone
    THEN [call EXCEPT !.pc = "raised"]
    ELSE [call EXCEPT !.pc = "scored",
                      !.score = [mu |-> Mean(call.features.rows),
                                 sigma |-> Cov(call.features.rows),
                                 ref |-> call.mnist_stats]]

\* Locals of a scoring call after MNISTModel() (lines 189-195, 219-226).
StartCall(kind, mnist_stats, n_samples, batch_size, data) ==
    [kind |-> kind, pc |-> "loop", mnist_stats |-> mnist_stats,
     n_samples |-> n_samples, batch_size |-> batch_size,
     noise_rows |-> batch_size, count |-> 0, features |-> NoFeatures,
     data |-> data, data_loader |-> DataLoader(data, batch_size, TRUE),
     imputed |-> {}, score |-> NoScore]

\* n_samples of imputer_fid (line 222)
ImputerSamples(data, batch_size) ==
    Len(DataLoader(data, batch_size, TRUE)) * batch_size

\* One pass of the while loop of data_generator_fid (lines 197-210);
\* samples is data_generator(data_noise), one image per noise row.
GeneratorStep(call, samples, empty) ==
    LET batch_feature == BatchFeature(samples)
        features == Allocate(call.features, empty)
    IN IF call.count + call.batch_size > call.n_samples
       THEN LET batch_size == call.n_samples - call.count
            IN [call EXCEPT
                  !.batch_size = batch_size,
                  !.features = Store(features, call.count, Len(features.rows),
                                     SubSeq(batch_feature, 1, batch_size)),
                  !.count = call.count + batch_size]
       ELSE [call EXCEPT
               !.features = Store(features, call.count,
                                  call.count + call.batch_size, batch_feature),
               !.count = call.count + call.batch_size]

\* imputer(real_data, real_mask, impu_noise) for one image: the external
\* imputer completes it using the fresh noise.
Impute(x, noise) == x + noise

\* Variant of ImputerStep: start is not advanced after a batch.
ImputerStepNoAdvance(call, noise, empty) ==
    LET batch == Head(call.data_loader)
        imputed_data == [j \in 1..Len(batch) |-> Impute(batch[j].x, noise[j])]
        batch_feature == BatchFeature(imputed_data)
        features == Allocate(call.features, empty)
    IN [call EXCEPT
          !.data_loader = Tail(call.data_loader),
          !.imputed = call.imputed \cup {batch[j].index : j \in 1..Len(batch)},
          !.features = Store(features, call.count,
                             call.count + call.batch_size, batch_feature)]

\* One pass of the for loop of imputer_fid (lines 227-238) on the next
\* batch of the loader; noise is impu_noise after uniform_().
ImputerStep(call, noise, empty) ==
    LET batch == Head(call.data_loader)
        imputed_data == [j \in 1..Len(batch) |-> Impute(batch[j].x, noise[j])]
        batch_feature == BatchFeature(imputed_data)
        features == Allocate(call.features, empty)
    IN [call EXCEPT
          !.data_loader = Tail(call.data_loader),
          !.imputed = call.imputed \cup {batch[j].index : j \in 1..Len(batch)},
          !.features = Store(features, call.count,
                             call.count + call.batch_size, batch_feature),
          !.count = call.count + call.batch_size]

(***************************************************************************)
(* SpecScoring: a run of scoring calls sharing the statistics file.         *)
(***************************************************************************)
NoiseVals == {0, 1}

\* A masked dataset of n items (image x, index).
Dataset(n) == [k \in 1..n |-> [index |-> k, x |-> 1 + (k % 2)]]

IdleCall == StartCall("none", [mu |-> NoStats, sigma |-> NoStats], 0, 1, <<>>)

InitScoring ==
    /\ \E present \in BOOLEAN :
          sc = [file |-> IF present
                         THEN Savez(ReferencePass([k \in 1..RefImages |-> 0]).mu,
                                    ReferencePass([k \in 1..RefImages |-> 0]).sigma)
                         ELSE NoFile,
                file_at_start |-> present,
                requests |-> 0, reference_passes |-> 0, loads |-> 0,
                call |-> [IdleCall EXCEPT !.pc = "idle"]]
    /\ ga = NoCall
    /\ fd = NoCall
    /\ mn = NoCall

CallOver == sc.call.pc \in {"idle", "scored", "raised"}

\* The bookkeeping of one MNISTModel() on the shared file.
Construct(m) ==
    [sc EXCEPT !.file = m.file,
               !.requests = sc.requests + 1,
               !.reference_passes = sc.reference_passes + (IF m.computed THEN 1 ELSE 0),
               !.loads = sc.loads + (IF m.computed THEN 0 ELSE 1)]

\* data_generator_fid(data_generator, n_samples, batch_size) up to the loop
Call_DataGeneratorFid ==
    /\ CallOver
    /\ sc.requests < MaxCalls
    /\ \E n_samples \in 0..MaxSamples, batch_size \in 1..MaxBatchSize,
          empty \in [1..RefImages -> Garbage] :
          LET m == MNISTModelInit(sc.file, empty)
          IN sc' = [Construct(m) EXCEPT
                      !.call = StartCall("generator", m.mnist_stats, n_samples,
                                         batch_size, <<>>)]
    /\ UNCHANGED <<ga, fd, mn>>

\* imputer_fid(imputer, data, batch_size) up to the loop
Call_ImputerFid ==
    /\ CallOver
    /\ sc.requests < MaxCalls
    /\ \E n \in 0..MaxSamples, batch_size \in 1..MaxBatchSize,
          empty \in [1..RefImages -> Garbage] :
          LET m == MNISTModelInit(sc.file, empty)
          IN sc' = [Construct(m) EXCEPT
                      !.call = StartCall("imputer", m.mnist_stats,
                                         ImputerSamples(Dataset(n), batch_size),
                                         batch_size, Dataset(n))]
    /\ UNCHANGED <<ga, fd, mn>>

\* while count < n_samples: ...
DG_Batch ==
    /\ sc.call.kind = "generator"
    /\ sc.call.pc = "loop"
    /\ sc.call.count < sc.call.n_samples
    /\ \E samples \in [1..sc.call.noise_rows -> SampleVals],
          empty \in (IF sc.call.features.isNone
                     THEN [1..sc.call.n_samples -> Garbage]
                     ELSE {sc.call.features.rows}) :
          sc' = [sc EXCEPT !.call = GeneratorStep(sc.call, samples, empty)]
    /\ UNCHANGED <<ga, fd, mn>>

\* return mnist_model.fid(features)   (line 215)
DG_Fid ==
    /\ sc.call.kind = "generator"
    /\ sc.call.pc = "loop"
    /\ ~(sc.call.count < sc.call.n_samples)
    /\ sc' = [sc EXCEPT !.call = Fid(sc.call)]
    /\ UNCHANGED <<ga, fd, mn>>

\* for real_data, real_mask, _, index in data_loader: ...
IM_Batch ==
    /\ sc.call.kind = "imputer"
    /\ sc.call.pc = "loop"
    /\ sc.call.data_loader # <<>>
    /\ \E noise \in [1..sc.call.noise_rows -> NoiseVals],
          empty \in (IF sc.call.features.isNone
                     THEN [1..sc.call.n_samples -> Garbage]
                     ELSE {sc.call.features.rows}) :
          sc' = [sc EXCEPT !.call = ImputerStep(sc.call, noise, empty)]
    /\ UNCHANGED <<ga, fd, mn>>

\* return mnist_model.fid(features)   (line 243)
IM_Fid ==
    /\ sc.call.kind = "imputer"
    /\ sc.call.pc = "loop"
    /\ sc.call.data_loader = <<>>
    /\ sc' = [sc EXCEPT !.call = Fid(sc.call)]
    /\ UNCHANGED <<ga, fd, mn>>

NextScoring ==
    \/ Call_DataGeneratorFid \/ Call_ImputerFid
    \/ DG_Batch \/ DG_Fid \/ IM_Batch \/ IM_Fid

SpecScoring == InitScoring /\ [][NextScoring]_vars

(***************************************************************************)
(* main                                                                     *)
(*                                                                          *)
(* A file name is the sequence of its code points; a checkpoint file is     *)
(* [name, mtime, imputer] (imputer: the bundle has an 'imputer' entry).     *)
(***************************************************************************)
MaxFiles == 2        \* files under <root_dir>/model
MaxMtime == 2        \* distinct modification times

\* ".pth"
PthSuffix == <<46, 112, 116, 104>>

\* ".pt"
OtherSuffix == <<46, 112, 116>>

\* fnmatch of a name against '*.pth'
MatchesPth(name) ==
    /\ Len(name) >= Len(PthSuffix)
    /\ SubSeq(name, Len(name) - Len(PthSuffix) + 1, Len(name)) = PthSuffix

\* (root_dir / 'model').glob('*.pth')
Glob(files) == {f \in files : MatchesPth(f.name)}

\* a < b for Python str: code points compared left to right, a proper
\* prefix being smaller.  All globbed paths share their parent, so this is
\* also the order of the Path objects.
RECURSIVE StrLess(_, _)
StrLess(a, b) ==
    IF b = <<>> THEN FALSE
    ELSE IF a = <<>> THEN TRUE
    ELSE IF Head(a) # Head(b) THEN Head(a) < Head(b)
    ELSE StrLess(Tail(a), Tail(b))

\* Variant of PathMax: the newest file.
PathMaxByMtime(found) == CHOOSE f \in found : \A g \in found : g.mtime <= f.mtime

\* max(paths) (line 304), for a non-empty set of files with distinct names
PathMax(found) == CHOOSE f \in found : \A g \in found : ~StrLess(f.name, g.name)

NoFileName == <<>>

MainStart(files, skip_exist, fid_file_exists) ==
    [pc |-> "start", files |-> files, skip_exist |-> skip_exist,
     fid_file |-> fid_file_exists, imputer_fid_file |-> FALSE,
     model_file |-> NoFileName, scored |-> NoFileName,
     imputer_scored |-> NoFileName]

\* Lines 299-302: skip when asked to and the result file exists.
MainSkips(st) == st.skip_exist /\ st.fid_file

\* Lines 303-311: pick the checkpoint, score its generator, write the file.
MainScore(st) ==
    IF Glob(st.files) = {}
    THEN [st EXCEPT !.pc = "returned"]
    ELSE LET model_file == PathMax(Glob(st.files))
         IN [st EXCEPT !.pc = "imputer",
                       !.model_file = model_file.name,
                       !.scored = model_file.name,
                       !.fid_file = TRUE]

\* Lines 314-315 and pretrained_imputer_fid: the same checkpoint's imputer,
\* if it has one.
MainImputer(st) ==
    LET model == CHOOSE f \in st.files : f.name = st.model_file
    IN IF ~model.imputer
       THEN [st EXCEPT !.pc = "returned"]
       ELSE [st EXCEPT !.pc = "returned",
                       !.imputer_scored = st.model_file,
                       !.imputer_fid_file = TRUE]

(***************************************************************************)
(* SpecMain: one run of main over a results directory.                      *)
(***************************************************************************)
NameChars == {45, 97}

Names ==
    {stem \o ext : stem \in SeqsUpTo(NameChars, 2),
                   ext \in {PthSuffix, OtherSuffix}}

FileRecords == [name : Names, mtime : 1..MaxMtime, imputer : BOOLEAN]

\* Directories: sets of at most MaxFiles files with distinct names.
Directories ==
    {d \in UNION {{{listing[i] : i \in 1..k} : listing \in [1..k -> FileRecords]}
                    : k \in 0..MaxFiles} :
        \A f, g \in d : f.name = g.name => f = g}

InitMain ==
    /\ \E files \in Directories, skip_exist \in BOOLEAN, fid_file \in BOOLEAN :
          mn = MainStart(files, skip_exist, fid_file)
    /\ ga = NoCall
    /\ fd = NoCall
    /\ sc = NoCall

Main_Skip ==
    /\ mn.pc = "start"
    /\ MainSkips(mn)
    /\ mn' = [mn EXCEPT !.pc = "returned"]
    /\ UNCHANGED <<ga, fd, sc>>

Main_Score ==
    /\ mn.pc = "start"
    /\ ~MainSkips(mn)
    /\ mn' = MainScore(mn)
    /\ UNCHANGED <<ga, fd, sc>>

Main_Imputer ==
    /\ mn.pc = "imputer"
    /\ mn' = MainImputer(mn)
    /\ UNCHANGED <<ga, fd, sc>>

NextMain == Main_Skip \/ Main_Score \/ Main_Imputer

SpecMain == InitMain /\ [][NextMain]_vars

(***************************************************************************)
(* Claims about the collector.                                              *)
(***************************************************************************)
Samples == Flatten(ga.batch_source)

BatchSizes == [b \in 1..Len(ga.batch_source) |-> Len(ga.batch_source[b])]

TotalSupplied == SumSeq(BatchSizes)

PrefixSupplied(b) == SumSeq(SubSeq(BatchSizes, 1, b))

GADone == ga.act.pc \in {"returned", "raised"}

\* Rows 1..n hold the extractor output of samples 1..n, each written once.
RowsFilled(n) ==
    \A k \in 1..n : /\ ga.act.writes[k] = 1
                    /\ ga.act.pred_arr[k] = Feature(Samples[k])

Overshoots ==
    \E b \in 1..Len(ga.batch_source) :
        /\ PrefixSupplied(b) > ga.act.images
        /\ BatchSizes[b] # 1

\* C10 as stated: whenever the sizes do not sum to total_count (fewer or
\* more, at least one batch), no error is raised and a total_count-row
\* matrix is returned, which the moment estimator consumes.
C10_Original ==
    (GADone /\ ga.batch_source # <<>> /\ TotalSupplied # ga.act.images) =>
        /\ ga.act.pc = "returned"
        /\ Len(ga.act.pred_arr) = ga.act.images
        /\ ga.stats.pc # "raised"

\* C10 amended: there is no explicit row-count check.  With fewer samples
\* than total_count no error is raised: the matrix has total_count rows, the
\* first ones hold the extractor outputs, the others were never written, and
\* the moment estimator takes its statistics over all of them.  With more
\* samples the slice assignment of a batch that reaches past row total_count
\* raises, unless every such batch has a single sample, which is dropped.
C10_Unchecked ==
    (GADone /\ ga.batch_source # <<>> /\ TotalSupplied # ga.act.images) =>
        /\ ga.act.pc = "raised" <=> Overshoots
        /\ TotalSupplied < ga.act.images => ga.act.pc = "returned"
        /\ ga.act.pc = "returned" =>
              /\ Len(ga.act.pred_arr) = ga.act.images
              /\ RowsFilled(Min(TotalSupplied, ga.act.images))
              /\ \A k \in 1..ga.act.images :
                    k > TotalSupplied => ga.act.writes[k] = 0
              /\ ga.stats.pc # "raised"
              /\ ga.stats.pc = "returned" =>
                    /\ ga.stats.mu = Mean(ga.act.pred_arr)
                    /\ ga.stats.mu.den = ga.act.images
        /\ ga.act.pc = "raised" => ga.stats.pc # "returned"

\* C10 witness: fewer samples than declared, statistics taken over a matrix
\* whose last row was never written.
C10_Witness ==
    /\ ga.stats.pc = "returned"
    /\ ga.batch_source # <<>>
    /\ TotalSupplied < ga.act.images
    /\ ga.act.writes[ga.act.images] = 0

(***************************************************************************)
(* Claims about calculate_frechet_distance.                                 *)
(***************************************************************************)
\* The square root the call ends up with: the retried one if there was a
\* retry, the first one otherwise.
LastRoot == fd.roots[Len(fd.roots)]

RootDim(r) == Len(r.m)

HasNonFinite(r) ==
    \E i, j \in 1..RootDim(r) : ~r.m[i][j].reFinite \/ ~r.m[i][j].imFinite

\* Every diagonal imaginary part is within 1e-3 (10 units of 1e-4) of zero.
DiagImagWithinTol(r) ==
    \A i \in 1..RootDim(r) : r.m[i][i].imFinite /\ r.m[i][i].im <= 10

LargestImag(r) ==
    CHOOSE v \in {r.m[i][j].im : i, j \in 1..RootDim(r)} :
        \A i, j \in 1..RootDim(r) : r.m[i][j].im <= v

FDPastFiniteCheck == fd.pc \in {"iscomplex", "trace", "returned"}
                     \/ (fd.pc = "raised" /\ fd.error = "ValueError")

FDPastComplexCheck == fd.pc \in {"trace", "returned"}
                      \/ (fd.pc = "raised" /\ fd.error = "ValueError")

\* C4: the regularised square root (cov1 + eps*I)(cov2 + eps*I) is computed
\* exactly when the first result has a non-finite entry, and at most once:
\* sqrtm is never called more than twice, whatever the second result is.
C4_RetryOnce ==
    /\ fd.sqrtm_calls <= 2
    /\ fd.sqrtm_calls = Len(fd.roots)
    /\ fd.retried <=> fd.sqrtm_calls = 2
    /\ FDPastFiniteCheck => (fd.retried <=> HasNonFinite(fd.roots[1]))
    /\ fd.retried =>
          /\ fd.sqrtm_args[2].c1 = MatAdd(fd.sigma1.data, fd.sigma2.data)
          /\ fd.sqrtm_args[2].c2 = Eye(Len(fd.sigma1.data))
          /\ fd.sqrtm_args[2].c0 = fd.sqrtm_args[1].c0

\* C4 witness: the call is over, the retry was taken and its result is
\* still non-finite; no third square root was computed.
C4_Witness ==
    /\ fd.pc \in {"returned", "raised"}
    /\ fd.retried
    /\ HasNonFinite(LastRoot)
    /\ fd.sqrtm_calls = 2

\* C5: for a complex square root only the diagonal imaginary parts decide.
\* All within 1e-3: the imaginary part is dropped and a (real) score is
\* returned, whatever the off-diagonal imaginary parts are.  Otherwise the
\* call raises ValueError carrying the largest imaginary magnitude of the
\* whole matrix, and returns no score.
C5_ComplexResidue ==
    (fd.roots # <<>> /\ FDPastComplexCheck /\ LastRoot.complex) =>
        IF DiagImagWithinTol(LastRoot)
        THEN /\ fd.pc # "raised"
             /\ ~fd.covmean.complex
             /\ \A i, j \in 1..RootDim(LastRoot) :
                   /\ fd.covmean.m[i][j].im = 0
                   /\ fd.covmean.m[i][j].re = LastRoot.m[i][j].re
        ELSE /\ fd.pc = "raised"
             /\ fd.error = "ValueError"
             /\ fd.result = NoResult
             /\ fd.m.finite => fd.m.val = LargestImag(LastRoot)

\* C5 witness: a score was returned from a complex root whose off-diagonal
\* imaginary parts are far beyond the tolerance.
C5_Witness ==
    /\ fd.pc = "returned"
    /\ LastRoot.complex
    /\ RootDim(LastRoot) = 2
    /\ LastRoot.m[1][2].im > 10
    /\ LastRoot.m[1][1].im > 0

MeanLen(a) == Len(a.data[1])

CovDims(a) == <<Len(a.data), Len(a.data[1])>>

ShapesDiffer ==
    \/ MeanLen(fd.mu1) # MeanLen(fd.mu2)
    \/ CovDims(fd.sigma1) # CovDims(fd.sigma2)

\* C6: with mean vectors of different shapes or covariance matrices of
\* different shapes the call fails with the assertion before any square
\* root is computed: no retry, no score.
C6_ShapeMismatch ==
    (fd.pc # "assert" /\ ShapesDiffer) =>
        /\ fd.pc = "raised"
        /\ fd.error = "AssertionError"
        /\ fd.sqrtm_calls = 0
        /\ fd.roots = <<>>
        /\ ~fd.retried
        /\ fd.result = NoResult

\* C6 witness: the assertion failed on covariances of different shapes
\* although the means agree.
C6_Witness ==
    /\ fd.pc = "raised"
    /\ fd.error = "AssertionError"
    /\ MeanLen(fd.mu1) = MeanLen(fd.mu2)
    /\ CovDims(fd.sigma1) # CovDims(fd.sigma2)

IsDiagonal(m) == \A i, j \in 1..Len(m) : i # j => m[i][j] = 0

NormSq(u, v) == SumSeq([k \in 1..Len(u) |-> (u[k] - v[k]) * (u[k] - v[k])])

DiagSum(m) == SumSeq([i \in 1..Len(m) |-> m[i][i]])

\* trace of the square root of a.b for diagonal a, b with square products
RootTrace(a, b) ==
    SumSeq([i \in 1..Len(a) |->
              CHOOSE r \in 0..(a[i][i] * b[i][i]) : r * r = a[i][i] * b[i][i]])

\* C7: without fallback and without complex residue the call returns
\* ||mean1 - mean2||^2 + trace(cov1) + trace(cov2) - 2*trace(sqrtm(cov1*cov2))
\* (diagonal integer covariances whose product has an integer root); means
\* [0,0] and [3,4] with both covariances the 2x2 identity give exactly 25.
C7_Formula ==
    (/\ fd.pc = "returned"
     /\ ~fd.retried
     /\ ~fd.roots[1].complex
     /\ IsDiagonal(fd.sigma1.data)
     /\ IsDiagonal(fd.sigma2.data)) =>
        /\ fd.result.finite
        /\ fd.result.val = NormSq(fd.mu1.data[1], fd.mu2.data[1])
                           + DiagSum(fd.sigma1.data) + DiagSum(fd.sigma2.data)
                           - 2 * RootTrace(fd.sigma1.data, fd.sigma2.data)
        /\ (/\ fd.mu1.data[1] = <<0, 0>>
            /\ fd.mu2.data[1] = <<3, 4>>
            /\ fd.sigma1.data = <<<<1, 0>>, <<0, 1>>>>
            /\ fd.sigma2.data = <<<<1, 0>>, <<0, 1>>>>) => fd.result.val = 25

\* C7 witness: the call on means [0,0], [3,4] and identity covariances
\* has returned.
C7_Witness ==
    /\ fd.pc = "returned"
    /\ fd.mu1.data[1] = <<0, 0>>
    /\ fd.mu2.data[1] = <<3, 4>>
    /\ fd.sigma1.data = <<<<1, 0>>, <<0, 1>>>>
    /\ fd.sigma2.data = <<<<1, 0>>, <<0, 1>>>>
    /\ fd.result.val = 25

\* C9 as stated: ValueError is raised only in calls that took the retry, and
\* every call that returns returns a finite score.
C9_Original ==
    /\ (fd.pc = "raised" /\ fd.error = "ValueError") => fd.retried
    /\ fd.pc = "returned" => fd.result.finite

\* C9 amended: a non-finite first square root is retried once, but the
\* ValueError does not depend on the retry: it is raised exactly when the
\* square root the call ends up with (first or retried) is complex with a
\* diagonal imaginary part beyond 1e-3.  A retry whose result is still
\* non-finite is not detected: unless that raises, a score is returned, and
\* it is finite exactly when the real diagonal of the root is.
C9_Escalation ==
    /\ FDPastFiniteCheck => (fd.retried <=> HasNonFinite(fd.roots[1]))
    /\ (fd.roots # <<>> /\ FDPastComplexCheck) =>
          ((fd.pc = "raised" /\ fd.error = "ValueError")
             <=> (LastRoot.complex /\ ~DiagImagWithinTol(LastRoot)))
    /\ fd.pc = "returned" =>
          (fd.result.finite
             <=> \A i \in 1..RootDim(LastRoot) : LastRoot.m[i][i].reFinite)

\* C9 witness: a retried call returned a non-finite score.
C9_Witness ==
    /\ fd.pc = "returned"
    /\ fd.retried
    /\ ~fd.result.finite

(***************************************************************************)
(* Claims about the scoring calls and the statistics file.                  *)
(***************************************************************************)
\* calculate_frechet_distance has been called by the current scoring call.
Scored == sc.call.pc = "scored"

\* The buffer has n rows and each was written exactly once.
AllRowsOnce(n) ==
    /\ ~sc.call.features.isNone
    /\ Len(sc.call.features.rows) = n
    /\ \A k \in 1..n : sc.call.features.writes[k] = 1

Population == Len(sc.call.data)

\* C2 as stated: the distance is computed only after the full budget was
\* consumed: n_samples rows written once each for the generator, and EVERY
\* sample of the population imputed for the imputer, whatever the
\* population size and batch size.
C2_Original ==
    Scored =>
        /\ sc.call.kind = "generator" =>
              sc.call.count = sc.call.n_samples /\ AllRowsOnce(sc.call.n_samples)
        /\ sc.call.kind = "imputer" =>
              sc.call.imputed = 1..Population

\* C2 amended: the generator part as stated; imputer_fid scores after the
\* first batch_size * floor(population / batch_size) samples have been
\* imputed and written once each: the samples of a trailing partial batch
\* (population not a multiple of batch_size) are dropped, never imputed.
C2_FullBudget ==
    Scored =>
        /\ sc.call.kind = "generator" =>
              sc.call.count = sc.call.n_samples /\ AllRowsOnce(sc.call.n_samples)
        /\ sc.call.kind = "imputer" =>
              /\ sc.call.imputed =
                    1..(Population - (Population % sc.call.batch_size))
              /\ AllRowsOnce(Population - (Population % sc.call.batch_size))
              /\ sc.call.data_loader = <<>>

\* C2 witness: an imputer call has scored a population that is not a
\* multiple of the batch size, after at least one batch.
C2_Witness ==
    /\ Scored
    /\ sc.call.kind = "imputer"
    /\ Population % sc.call.batch_size # 0
    /\ sc.call.imputed # {}

\* C3: starting without a statistics file, the reference pass (collector +
\* moment estimator over the reference corpus) runs exactly once however
\* many MNISTModel objects the run constructs; the missing file is no error,
\* and every later request is served from the persisted pair.
C3_CacheOnce ==
    (~sc.file_at_start /\ sc.requests >= 1) =>
        /\ sc.reference_passes = 1
        /\ sc.loads = sc.requests - 1
        /\ sc.file.exists
        /\ sc.call.pc # "idle"
        /\ sc.call.mnist_stats = [mu |-> sc.file.mu, sigma |-> sc.file.sigma]

\* C3 witness: three requests in a run that started without the file.
C3_Witness ==
    /\ ~sc.file_at_start
    /\ sc.requests = 3
    /\ sc.reference_passes = 1
    /\ sc.loads = 2

(***************************************************************************)
(* Claims about main.                                                       *)
(***************************************************************************)
Checkpoints == {f \in mn.files : MatchesPth(f.name)}

ScoredFile == CHOOSE f \in mn.files : f.name = mn.scored

\* a comes strictly before b in code point order.
Before(a, b) ==
    \E i \in 1..Len(b) :
        /\ i <= Len(a) + 1
        /\ \A k \in 1..(i - 1) : a[k] = b[k]
        /\ i <= Len(a) => a[i] < b[i]

\* C8 as stated: the checkpoint that is scored is the most recently
\* modified *.pth file under <root_dir>/model.
C8_Original ==
    mn.scored # NoFileName =>
        \A f \in Checkpoints : f.mtime <= ScoredFile.mtime

\* C8 amended: the checkpoint that is scored is the *.pth file whose name
\* is greatest in string (code point) order, whatever the modification
\* times are.
C8_GreatestName ==
    /\ mn.scored # NoFileName =>
          /\ ScoredFile \in Checkpoints
          /\ \A f \in Checkpoints : f.name = mn.scored \/ Before(f.name, mn.scored)
    /\ (mn.pc = "returned" /\ mn.scored = NoFileName) =>
          (Checkpoints = {} \/ (mn.skip_exist /\ mn.fid_file))

\* C8 witness: two checkpoints, and the one that was scored is the older.
C8_Witness ==
    /\ mn.scored # NoFileName
    /\ Cardinality(Checkpoints) = 2
    /\ \E f \in Checkpoints : f.mtime > ScoredFile.mtime

====
